---- MODULE Spec2Model ----
(***************************************************************************)
(* The persistence service of ionic-tasks                                  *)
(* (src/src/services/databaseService.ts): one DatabaseService object that  *)
(* stores tasks either as one JSON array under the localStorage key        *)
(* 'ionic-tasks' (isWeb) or as rows of the SQLite table `tasks` reached    *)
(* through one connection to 'tasks.db' (native).                          *)
(*                                                                         *)
(* Encodings.  Date.now() is the integer `now` (milliseconds); an ISO      *)
(* created_at string is represented by the millisecond count it prints,    *)
(* which orders the same way.  SQLite's CURRENT_TIMESTAMP has a resolution *)
(* of one second and is `now \div TicksPerSecond`.  Math.random() yields   *)
(* one of RandRes equally spaced fractions r/RandRes, so the identifier    *)
(* Date.now() + Math.random() is the fixed-point number now*RandRes + r.   *)
(* Errors are named by what the code throws: "NotInitialized" is           *)
(* Error('SQLite database not initialized'), "NotFound" is                 *)
(* Error('Task not found'), "DriverError" is an error thrown by the SQLite *)
(* plugin, "ReaderError" is the FileReader's error event, "TypeError" is    *)
(* the call of an Array method on a value that has none, and               *)
(* "StorageUnavailable" is Error('LocalStorage is not available').         *)
(***************************************************************************)
EXTENDS Integers, Sequences, FiniteSets, TLC

\* ---------------------------------------------------------------- bounds
MaxTasks == 2         \* tasks the browser store holds at once
MaxAdds == 2          \* identifiers the native table assigns; addTask returns recorded
MaxClock == 2         \* last value of the clock
TicksPerSecond == 2   \* clock ticks in one second of CURRENT_TIMESTAMP
MaxCallers == 1       \* addTask calls that can be suspended at once

\* the values of Math.random(), as numerators r of r / RandRes
RandomValues == {0, 1}
RandRes == Cardinality(RandomValues)

Callers == 1..MaxCallers
DataURIs == {"data:enc"}                     \* strings that start with 'data:'
ConvertOutcomes == {"ok", "fetchReject", "blobFail", "readerError"}
InitOutcomes == {"ok", "createFail", "openFail", "execFail"}
\* what initializeDatabase finds in the browser: a working localStorage, no
\* Storage interface at all, or a Storage whose access the browser blocks
WebInitOutcomes == {"ok", "noStorageAPI", "storageBlocked"}
\* items other code can leave under the key: text that is not JSON, and JSON
\* that is not an array
ForeignKinds == {"garbage", "object"}

VARIABLES
    isWeb,          \* DatabaseService.isWeb
    localStorage,   \* the item stored under storageKey
    db,             \* DatabaseService.db is non-null
    conn,           \* the plugin's connection to dbName: "none", "closed", "open"
    tableExists,    \* the table `tasks` exists in tasks.db
    table,          \* rows of `tasks`, in rowid order
    seq,            \* sqlite_sequence of `tasks` (AUTOINCREMENT)
    now,            \* the clock
    pend,           \* addTask calls suspended at `await convertImageToBase64`
    ret,            \* the last completed call: its name, how it ended ("ok" or
                    \* the error thrown), the identifier it returned (addTask),
                    \* the tasks it returned (getAllTasks), and whether it
                    \* wrote to the storage medium
    log,            \* history: <<id, text>> of every addTask that returned
    \* history variables, recorded by SpecHistory and SpecOverlap only
    lifecycle,      \* history: "new", "ready" (initialized), "closed"
    seqOnly,        \* history: no deleteTask, clearAllTasks or suspended addTask so far
    overwrote       \* history: the last step was an addTask writing over a
                    \* collection that had changed since the call read it

vars == <<isWeb, localStorage, db, conn, tableExists, table, seq, now, pend,
          ret, log, lifecycle, seqOnly, overwrote>>

NoCall == [active |-> FALSE]

\* ------------------------------------------------------- localStorage item
NoItem == [kind |-> "null"]

\* JSON.stringify(tasks): the document written by saveTasksToStorage
Stringify(tasks) == [kind |-> "array", items |-> tasks]

\* getStoredTasks applied to an item: `stored ? JSON.parse(stored) : []`,
\* and [] when JSON.parse throws; the records of the array it returns
ParseStored(item) ==
    IF item.kind = "null" THEN <<>>
    ELSE IF item.kind = "array" THEN item.items
    ELSE <<>>

\* getStoredTasks returns an array: [] for a missing key and for text
\* JSON.parse rejects, the parsed value for an array; any other JSON value is
\* returned as it is, and has none of unshift, map, filter, findIndex
ReturnsArrayOnlyIfStored(item) == item.kind = "array"
returnsArray(item) == item.kind # "object"

getStoredTasks == ParseStored(localStorage)

\* saveTasksToStorage(tasks): the new item
saveTasksToStorage(tasks) == Stringify(tasks)

\* ------------------------------------------------------------- helpers
Ids(tasks) == {tasks[i].id : i \in DOMAIN tasks}

HasId(tasks, id) == \E i \in DOMAIN tasks : tasks[i].id = id

\* tasks.findIndex(task => task.id === id); 0 stands for -1
findIndex(tasks, id) ==
    IF HasId(tasks, id)
    THEN CHOOSE i \in DOMAIN tasks :
            /\ tasks[i].id = id
            /\ \A j \in DOMAIN tasks : tasks[j].id = id => i <= j
    ELSE 0

\* tasks.filter(task => task.id !== id)
FilterKeepAll(tasks, id) == tasks
FilterDropsOthers(tasks, id) == SelectSeq(tasks, LAMBDA t : FALSE)
filterOutId(tasks, id) == SelectSeq(tasks, LAMBDA t : t.id # id)

\* generateId(): Date.now() + Math.random()
generateId(r) == now * RandRes + r

\* new Date().toISOString()
toISOString == now

\* CURRENT_TIMESTAMP
CurrentTimestamp == now \div TicksPerSecond

\* the connection behind this.db can run statements on `tasks`
Usable == db /\ conn = "open" /\ tableExists

Ret(op, status, id, tasks) ==
    [op |-> op, status |-> status, id |-> id, tasks |-> tasks, wrote |-> FALSE]

\* the call also ran localStorage.setItem or removeItem, or a statement of
\* db.run or db.execute, to completion
Wrote(r) == [r EXCEPT !.wrote = TRUE]

NoPending == \A c \in Callers : ~pend[c].active

\* the stored collection of the selected backend
Stored == IF isWeb THEN getStoredTasks ELSE table

\* ------------------------------------------------------------- Init
Init ==
    /\ isWeb \in BOOLEAN
    /\ localStorage = NoItem
    /\ db = FALSE
    /\ conn = "none"
    /\ tableExists = FALSE
    /\ table = <<>>
    /\ seq = 0
    /\ now = 1
    /\ pend = [c \in Callers |-> NoCall]
    /\ ret = Ret("constructor", "ok", 0, <<>>)
    /\ log = <<>>
    /\ lifecycle = "new"
    /\ seqOnly = TRUE
    /\ overwrote = FALSE

Tick ==
    /\ now < MaxClock
    /\ now' = now + 1
    /\ UNCHANGED <<isWeb, localStorage, db, conn, tableExists, table, seq,
                   pend, ret>>

\* ----------------------------------------------------- initializeDatabase
\* this.sqlite.createConnection(dbName, ...) throws: the plugin refuses a
\* second connection to a name it already holds, or fails on its own
createConnectionThrows(outcome) == outcome = "createFail" \/ conn # "none"

\* this.db.open() throws
openThrows(outcome) == outcome = "openFail"

\* this.db.execute(createTasksTable) throws
executeThrows(outcome) == outcome = "execFail"

\* typeof Storage === "undefined"
storageUndefined(outcome) == outcome = "noStorageAPI"

InitializeDatabase(outcome) ==
    /\ outcome \in IF isWeb THEN WebInitOutcomes ELSE InitOutcomes
    /\ IF isWeb
       THEN /\ ret' = IF storageUndefined(outcome)
                      THEN Ret("initializeDatabase", "StorageUnavailable", 0, <<>>)
                      ELSE Ret("initializeDatabase", "ok", 0, <<>>)
            /\ UNCHANGED <<db, conn, tableExists>>
       ELSE IF createConnectionThrows(outcome)
       THEN /\ ret' = Ret("initializeDatabase", "DriverError", 0, <<>>)
            /\ UNCHANGED <<db, conn, tableExists>>
       ELSE IF openThrows(outcome)
       THEN /\ db' = TRUE
            /\ conn' = "closed"
            /\ ret' = Ret("initializeDatabase", "DriverError", 0, <<>>)
            /\ UNCHANGED tableExists
       ELSE IF executeThrows(outcome)
       THEN /\ db' = TRUE
            /\ conn' = "open"
            /\ ret' = Ret("initializeDatabase", "DriverError", 0, <<>>)
            /\ UNCHANGED tableExists
       ELSE /\ db' = TRUE
            /\ conn' = "open"
            /\ tableExists' = TRUE
            /\ ret' = Wrote(Ret("initializeDatabase", "ok", 0, <<>>))
    /\ UNCHANGED <<isWeb, localStorage, table, seq, now, pend>>

\* ---------------------------------------------------------- closeDatabase
\* this.db.close() throws: the plugin closes only an open database
closeThrows(fail) == fail \/ conn # "open"

\* closeDatabase with `this.db = null` run whether or not close() threw
CloseDropsHandle(fail) ==
    /\ fail => ~isWeb /\ db /\ conn = "open"
    /\ IF ~isWeb /\ db
       THEN /\ conn' = IF closeThrows(fail) THEN conn ELSE "closed"
            /\ db' = FALSE
       ELSE UNCHANGED <<db, conn>>
    /\ ret' = Ret("closeDatabase", "ok", 0, <<>>)
    /\ UNCHANGED <<isWeb, localStorage, tableExists, table, seq, now, pend>>

CloseDatabase(fail) ==
    /\ fail => ~isWeb /\ db /\ conn = "open"
    /\ IF ~isWeb /\ db
       THEN IF closeThrows(fail)
            THEN UNCHANGED <<db, conn>>
            ELSE /\ conn' = "closed"
                 /\ db' = FALSE
       ELSE UNCHANGED <<db, conn>>
    /\ ret' = Ret("closeDatabase", "ok", 0, <<>>)
    /\ UNCHANGED <<isWeb, localStorage, tableExists, table, seq, now, pend>>

\* ---------------------------------------------------------------- addTask
\* the task argument: Omit<ITask, 'id' | 'created_at'>
TaskArgs ==
    {[text |-> "a", image_filepath |-> "", image_webview_path |-> "",
      completed |-> FALSE],
     [text |-> "b", image_filepath |-> "", image_webview_path |-> "blob:cam",
      completed |-> TRUE]}

\* { ...a, ...b }
Spread(a, b) ==
    [f \in DOMAIN a \cup DOMAIN b |-> IF f \in DOMAIN b THEN b[f] ELSE a[f]]

\* imagePath.startsWith('data:')
startsWithData(imagePath) == imagePath \in DataURIs

\* convertImageToBase64(imagePath): what the returned promise settles to.
\* A rejected fetch or blob() is caught and yields ''; the promise around
\* the FileReader is returned without await, so its rejection is not caught.
convertImageToBase64(imagePath, outcome) ==
    IF imagePath = "" THEN [threw |-> FALSE, value |-> ""]
    ELSE IF startsWithData(imagePath) THEN [threw |-> FALSE, value |-> imagePath]
    ELSE IF outcome \in {"fetchReject", "blobFail"}
    THEN [threw |-> FALSE, value |-> ""]
    ELSE IF outcome = "readerError" THEN [threw |-> TRUE, value |-> ""]
    ELSE [threw |-> FALSE, value |-> "data:enc"]

\* the record built at lines 139-145
NewTaskKeepsCompleted(task, image_base64, r) ==
    Spread(task, [id |-> generateId(r), created_at |-> toISOString,
                  image_base64 |-> image_base64])
newTask(task, image_base64, r) ==
    Spread(task, [id |-> generateId(r), created_at |-> toISOString,
                  completed |-> FALSE, image_base64 |-> image_base64])

\* tasks.unshift(newTask)
unshift(tasks, t) == <<t>> \o tasks

NumPending == Cardinality({c \in Callers : pend[c].active})

\* browser addTask by a caller that awaits it before issuing another call:
\* lines 132-150 run with nothing in between
AddTaskWeb(task, outcome, r) ==
    /\ isWeb
    /\ NoPending
    /\ Len(getStoredTasks) < MaxTasks
    /\ task.image_webview_path = "" => outcome = "ok"
    /\ LET tasks == getStoredTasks
           conv == IF task.image_webview_path # ""
                   THEN convertImageToBase64(task.image_webview_path, outcome)
                   ELSE [threw |-> FALSE, value |-> ""]
           t == newTask(task, conv.value, r)
       IN IF conv.threw
          THEN /\ ret' = Ret("addTask", "ReaderError", 0, <<>>)
               /\ UNCHANGED localStorage
          ELSE IF ~returnsArray(localStorage)
          THEN /\ ret' = Ret("addTask", "TypeError", 0, <<>>)
               /\ UNCHANGED localStorage
          ELSE /\ localStorage' = saveTasksToStorage(unshift(tasks, t))
               /\ ret' = Wrote(Ret("addTask", "ok", t.id, <<>>))
    /\ UNCHANGED <<isWeb, db, conn, tableExists, table, seq, now, pend>>

\* browser addTask without an image reference while another addTask is
\* suspended: no await, one step
AddTaskWebSync(task, r) ==
    /\ isWeb
    /\ ~NoPending
    /\ task.image_webview_path = ""
    /\ Len(getStoredTasks) + NumPending < MaxTasks
    /\ LET t == newTask(task, "", r)
       IN IF ~returnsArray(localStorage)
          THEN /\ ret' = Ret("addTask", "TypeError", 0, <<>>)
               /\ UNCHANGED localStorage
          ELSE /\ localStorage' = saveTasksToStorage(unshift(getStoredTasks, t))
               /\ ret' = Wrote(Ret("addTask", "ok", t.id, <<>>))
    /\ UNCHANGED <<isWeb, db, conn, tableExists, table, seq, now, pend>>

\* browser addTask with an image reference, up to the await: the collection
\* is read before the conversion is awaited
AddTaskWebBegin(c, task) ==
    /\ isWeb
    /\ task.image_webview_path # ""
    /\ ~pend[c].active
    /\ Len(getStoredTasks) + NumPending < MaxTasks
    /\ pend' = [pend EXCEPT ![c] =
                  [active |-> TRUE, task |-> task, tasks |-> getStoredTasks,
                   isArray |-> returnsArray(localStorage)]]
    /\ UNCHANGED <<isWeb, localStorage, db, conn, tableExists, table, seq, now,
                   ret>>

\* browser addTask with an image reference, after the await
AddTaskWebFinishRereads(c, outcome, r) ==
    /\ isWeb
    /\ pend[c].active
    /\ LET conv == convertImageToBase64(pend[c].task.image_webview_path, outcome)
           t == newTask(pend[c].task, conv.value, r)
       IN IF conv.threw
          THEN /\ ret' = Ret("addTask", "ReaderError", 0, <<>>)
               /\ UNCHANGED localStorage
          ELSE /\ localStorage' = saveTasksToStorage(unshift(getStoredTasks, t))
               /\ ret' = Wrote(Ret("addTask", "ok", t.id, <<>>))
    /\ pend' = [pend EXCEPT ![c] = NoCall]
    /\ UNCHANGED <<isWeb, db, conn, tableExists, table, seq, now>>

AddTaskWebFinish(c, outcome, r) ==
    /\ isWeb
    /\ pend[c].active
    /\ LET conv == convertImageToBase64(pend[c].task.image_webview_path, outcome)
           t == newTask(pend[c].task, conv.value, r)
       IN IF conv.threw
          THEN /\ ret' = Ret("addTask", "ReaderError", 0, <<>>)
               /\ UNCHANGED localStorage
          ELSE IF ~pend[c].isArray
          THEN /\ ret' = Ret("addTask", "TypeError", 0, <<>>)
               /\ UNCHANGED localStorage
          ELSE /\ localStorage' = saveTasksToStorage(unshift(pend[c].tasks, t))
               /\ ret' = Wrote(Ret("addTask", "ok", t.id, <<>>))
    /\ pend' = [pend EXCEPT ![c] = NoCall]
    /\ UNCHANGED <<isWeb, db, conn, tableExists, table, seq, now>>

\* task[f] || '' for an optional field f
orEmpty(task, f) == IF f \in DOMAIN task /\ task[f] # "" THEN task[f] ELSE ""

\* the row INSERT INTO tasks (...) VALUES (?, ?, ?, ?, ?) creates
insertedRow(task) ==
    [id |-> seq + 1, text |-> task.text, image_filepath |-> task.image_filepath,
     image_webview_path |-> orEmpty(task, "image_webview_path"),
     image_base64 |-> orEmpty(task, "image_base64"), completed |-> 0, created_at |-> CurrentTimestamp]

\* result.changes?.lastId || 0
lastIdOrZero(lastId) == IF lastId # 0 THEN lastId ELSE 0

AddTaskNative(task) ==
    /\ ~isWeb
    /\ seq < MaxAdds
    /\ IF ~db
       THEN /\ ret' = Ret("addTask", "NotInitialized", 0, <<>>)
            /\ UNCHANGED <<table, seq>>
       ELSE IF ~Usable
       THEN /\ ret' = Ret("addTask", "DriverError", 0, <<>>)
            /\ UNCHANGED <<table, seq>>
       ELSE LET row == insertedRow(task)
            IN /\ table' = Append(table, row)
               /\ seq' = row.id
               /\ ret' = Wrote(Ret("addTask", "ok", lastIdOrZero(row.id), <<>>))
    /\ UNCHANGED <<isWeb, localStorage, db, conn, tableExists, now, pend>>

\* ------------------------------------------------------------ getAllTasks
\* task.image_base64 || task.image_webview_path
ResolveTransientOnly(task) == task.image_webview_path
resolveImage(task) ==
    IF task.image_base64 # "" THEN task.image_base64 ELSE task.image_webview_path

\* the browser branch's tasks.map(...)
mapWeb(tasks) ==
    [i \in DOMAIN tasks |-> Spread(tasks[i], [image_webview_path |-> resolveImage(tasks[i])])]

\* Boolean(row.completed)
Boolean(n) == n # 0

\* the native branch's (result.values || []).map(...)
mapNative(rows) ==
    [i \in DOMAIN rows |-> [rows[i] EXCEPT !.completed = Boolean(rows[i].completed)]]

Perms(n) == {p \in [1..n -> 1..n] : \A i, j \in 1..n : i # j => p[i] # p[j]}

\* non-increasing created_at
IsDescending(rows) ==
    \A i, j \in DOMAIN rows : i < j => rows[i].created_at >= rows[j].created_at

\* SELECT ... FROM tasks ORDER BY created_at DESC: every order the engine may
\* return; rows with equal created_at come in an unspecified order
orderByCreatedAtDesc(rows) ==
    {s \in {[i \in DOMAIN rows |-> rows[p[i]]] : p \in Perms(Len(rows))} :
        IsDescending(s)}

\* what getAllTasks can return when it does not throw
getAllResults ==
    IF isWeb
    THEN {mapWeb(getStoredTasks)}
    ELSE {mapNative(rows) : rows \in orderByCreatedAtDesc(table)}

GetAllTasks ==
    /\ IF isWeb
       THEN IF ~returnsArray(localStorage)
            THEN ret' = Ret("getAllTasks", "TypeError", 0, <<>>)
            ELSE \E tasks \in getAllResults : ret' = Ret("getAllTasks", "ok", 0, tasks)
       ELSE IF ~db
       THEN ret' = Ret("getAllTasks", "NotInitialized", 0, <<>>)
       ELSE IF ~Usable
       THEN ret' = Ret("getAllTasks", "DriverError", 0, <<>>)
       ELSE \E tasks \in getAllResults : ret' = Ret("getAllTasks", "ok", 0, tasks)
    /\ UNCHANGED <<isWeb, localStorage, db, conn, tableExists, table, seq, now,
                   pend>>

\* identifiers a caller can pass: one never assigned (0), those stored, and
\* on the native backend every one the table has assigned so far
IdArgs == (0..seq) \cup Ids(Stored)

\* ------------------------------------------------------------- deleteTask
\* DELETE FROM tasks WHERE id = ?
deleteRows(rows, id) == SelectSeq(rows, LAMBDA row : row.id # id)

DeleteTask(id) ==
    /\ IF isWeb
       THEN IF ~returnsArray(localStorage)
            THEN /\ ret' = Ret("deleteTask", "TypeError", 0, <<>>)
                 /\ UNCHANGED <<localStorage, table>>
            ELSE /\ localStorage' = saveTasksToStorage(filterOutId(getStoredTasks, id))
                 /\ ret' = Wrote(Ret("deleteTask", "ok", 0, <<>>))
                 /\ UNCHANGED table
       ELSE IF ~db
       THEN /\ ret' = Ret("deleteTask", "NotInitialized", 0, <<>>)
            /\ UNCHANGED <<localStorage, table>>
       ELSE IF ~Usable
       THEN /\ ret' = Ret("deleteTask", "DriverError", 0, <<>>)
            /\ UNCHANGED <<localStorage, table>>
       ELSE /\ table' = deleteRows(table, id)
            /\ ret' = Wrote(Ret("deleteTask", "ok", 0, <<>>))
            /\ UNCHANGED localStorage
    /\ UNCHANGED <<isWeb, db, conn, tableExists, seq, now, pend>>

\* ------------------------------------------------------------- updateTask
NoFields == [f \in {} |-> f]

\* the partial updates callers pass: Partial<Omit<ITask, 'id' | 'created_at'>>
Updates ==
    {NoFields, [completed |-> TRUE]}

\* partial updates that carry the other fields of ITask, image_base64 among
\* them
PartialUpdates ==
    {[image_base64 |-> "data:enc"],
     [text |-> "b", image_base64 |-> "data:enc"],
     [text |-> "b", image_webview_path |-> "blob:cam"]}

\* tasks[taskIndex] = { ...tasks[taskIndex], ...updates }
UpdateResetsCompleted(tasks, i, updates) ==
    [tasks EXCEPT ![i] = Spread(Spread(tasks[i], [completed |-> FALSE]), updates)]
updateAt(tasks, i, updates) == [tasks EXCEPT ![i] = Spread(tasks[i], updates)]

\* updates.completed ? 1 : 0
flag(b) == IF b THEN 1 ELSE 0

\* the SET list the native branch builds (lines 242-260): column |-> value
setList(updates) ==
    [f \in DOMAIN updates \cap {"text", "image_filepath", "image_webview_path", "completed"} |->
        IF f = "completed" THEN flag(updates[f]) ELSE updates[f]]

\* UPDATE tasks SET ... WHERE id = ?
updateRows(rows, id, sets) ==
    [i \in DOMAIN rows |-> IF rows[i].id = id THEN Spread(rows[i], sets) ELSE rows[i]]

UpdateTask(id, updates) ==
    /\ IF isWeb
       THEN LET tasks == getStoredTasks
                taskIndex == findIndex(tasks, id)
            IN IF ~returnsArray(localStorage)
               THEN /\ ret' = Ret("updateTask", "TypeError", 0, <<>>)
                    /\ UNCHANGED <<localStorage, table>>
               ELSE IF taskIndex = 0
               THEN /\ ret' = Ret("updateTask", "NotFound", 0, <<>>)
                    /\ UNCHANGED <<localStorage, table>>
               ELSE /\ localStorage' = saveTasksToStorage(updateAt(tasks, taskIndex, updates))
                    /\ ret' = Wrote(Ret("updateTask", "ok", 0, <<>>))
                    /\ UNCHANGED table
       ELSE IF ~db
       THEN /\ ret' = Ret("updateTask", "NotInitialized", 0, <<>>)
            /\ UNCHANGED <<localStorage, table>>
       ELSE IF DOMAIN setList(updates) = {}
       THEN /\ ret' = Ret("updateTask", "ok", 0, <<>>)
            /\ UNCHANGED <<localStorage, table>>
       ELSE IF ~Usable
       THEN /\ ret' = Ret("updateTask", "DriverError", 0, <<>>)
            /\ UNCHANGED <<localStorage, table>>
       ELSE /\ table' = updateRows(table, id, setList(updates))
            /\ ret' = Wrote(Ret("updateTask", "ok", 0, <<>>))
            /\ UNCHANGED localStorage
    /\ UNCHANGED <<isWeb, db, conn, tableExists, seq, now, pend>>

\* --------------------------------------------------- toggleTaskCompletion
\* tasks[taskIndex].completed = !tasks[taskIndex].completed
ToggleSetTrue(tasks, i) == [tasks EXCEPT ![i].completed = TRUE]
toggleAt(tasks, i) == [tasks EXCEPT ![i].completed = ~tasks[i].completed]

\* SQL NOT on an integer flag
sqlNot(n) == IF n = 0 THEN 1 ELSE 0

\* UPDATE tasks SET completed = NOT completed WHERE id = ?
toggleRows(rows, id) ==
    [i \in DOMAIN rows |->
        IF rows[i].id = id
        THEN [rows[i] EXCEPT !.completed = sqlNot(rows[i].completed)]
        ELSE rows[i]]

ToggleTaskCompletion(id) ==
    /\ IF isWeb
       THEN LET tasks == getStoredTasks
                taskIndex == findIndex(tasks, id)
            IN IF ~returnsArray(localStorage)
               THEN /\ ret' = Ret("toggleTaskCompletion", "TypeError", 0, <<>>)
                    /\ UNCHANGED <<localStorage, table>>
               ELSE IF taskIndex = 0
               THEN /\ ret' = Ret("toggleTaskCompletion", "NotFound", 0, <<>>)
                    /\ UNCHANGED <<localStorage, table>>
               ELSE /\ localStorage' = saveTasksToStorage(toggleAt(tasks, taskIndex))
                    /\ ret' = Wrote(Ret("toggleTaskCompletion", "ok", 0, <<>>))
                    /\ UNCHANGED table
       ELSE IF ~db
       THEN /\ ret' = Ret("toggleTaskCompletion", "NotInitialized", 0, <<>>)
            /\ UNCHANGED <<localStorage, table>>
       ELSE IF ~Usable
       THEN /\ ret' = Ret("toggleTaskCompletion", "DriverError", 0, <<>>)
            /\ UNCHANGED <<localStorage, table>>
       ELSE /\ table' = toggleRows(table, id)
            /\ ret' = Wrote(Ret("toggleTaskCompletion", "ok", 0, <<>>))
            /\ UNCHANGED localStorage
    /\ UNCHANGED <<isWeb, db, conn, tableExists, seq, now, pend>>

\* ---------------------------------------------------------- clearAllTasks
\* localStorage.removeItem(storageKey), whatever the backend
ClearAllTasks ==
    /\ localStorage' = NoItem
    /\ ret' = Wrote(Ret("clearAllTasks", "ok", 0, <<>>))
    /\ UNCHANGED <<isWeb, db, conn, tableExists, table, seq, now, pend>>

\* ------------------------------------------------------------------ Next
\* a step of the service alone: the history variables stay as they are
Plain(A) == A /\ UNCHANGED <<log, lifecycle, seqOnly, overwrote>>

\* every call runs to completion before the next one is issued
Next ==
    \/ Plain(Tick)
    \/ \E outcome \in InitOutcomes \cup WebInitOutcomes :
          Plain(InitializeDatabase(outcome))
    \/ \E fail \in BOOLEAN : Plain(CloseDatabase(fail))
    \/ \E task \in TaskArgs, outcome \in ConvertOutcomes, r \in RandomValues :
          Plain(AddTaskWeb(task, outcome, r))
    \/ \E task \in TaskArgs : Plain(AddTaskNative(task))
    \/ Plain(GetAllTasks)
    \/ \E id \in IdArgs : Plain(DeleteTask(id))
    \/ \E id \in IdArgs, updates \in Updates : Plain(UpdateTask(id, updates))
    \/ \E id \in IdArgs : Plain(ToggleTaskCompletion(id))
    \/ Plain(ClearAllTasks)

Spec == Init /\ [][Next]_vars

\* ---------------------------------------------------------- environment
\* other code of the origin stores an item of its own under storageKey
ForeignWrite(kind) ==
    /\ isWeb
    /\ localStorage' = [kind |-> kind]
    /\ UNCHANGED <<isWeb, db, conn, tableExists, table, seq, now, pend, ret>>

\* the page is loaded again and the module constructs a new DatabaseService
\* (lines 21-26 and 323): db is null again; localStorage and tasks.db persist;
\* the plugin keeps its connections unless the process itself was ended
Restart(processEnded) ==
    /\ db' = FALSE
    /\ conn' = IF processEnded THEN "none" ELSE conn
    /\ pend' = [c \in Callers |-> NoCall]
    /\ ret' = Ret("constructor", "ok", 0, <<>>)
    /\ UNCHANGED <<isWeb, localStorage, tableExists, table, seq, now>>

\* the service with the environment acting between its calls
NextEnvironment ==
    \/ Next
    \/ \E kind \in ForeignKinds : Plain(ForeignWrite(kind))
    \/ \E processEnded \in BOOLEAN : Plain(Restart(processEnded))

SpecEnvironment == Init /\ [][NextEnvironment]_vars

\* the task an addTask call that has just returned stored
Added == IF isWeb THEN getStoredTasks[1] ELSE table[Len(table)]

\* the step completes an addTask that was suspended at its await, and the
\* collection it writes over is no longer the one it read
Overwrites ==
    \E c \in Callers :
        /\ pend[c].active
        /\ ~pend'[c].active
        /\ ret'.op = "addTask"
        /\ ret'.status = "ok"
        /\ getStoredTasks # pend[c].tasks

\* a step that records in the history variables what the call it completes
\* did: the identifier and text of the task when it is an addTask that
\* returned, whether initializeDatabase has succeeded and closeDatabase has
\* not completed since, and whether anything but awaited addTask calls has run
Recorded(A) ==
    /\ A
    /\ IF /\ ret'.op = "addTask"
          /\ ret'.status = "ok"
          /\ \/ Stored' # Stored
             \/ \E c \in Callers : pend[c].active /\ ~pend'[c].active
       THEN /\ Len(log) < MaxAdds
            /\ log' = Append(log, <<ret'.id, Added'.text>>)
       ELSE log' = log
    /\ lifecycle' =
          IF ret'.op = "initializeDatabase" /\ ret'.status = "ok" THEN "ready"
          ELSE IF ret'.op = "closeDatabase" THEN "closed"
          ELSE lifecycle
    /\ seqOnly' =
          (/\ seqOnly
           /\ ret'.op \notin {"deleteTask", "clearAllTasks"}
           /\ \A c \in Callers : ~pend'[c].active)
    /\ overwrote' = Overwrites

NextHistory ==
    \/ Recorded(Tick)
    \/ \E outcome \in InitOutcomes \cup WebInitOutcomes :
          Recorded(InitializeDatabase(outcome))
    \/ \E fail \in BOOLEAN : Recorded(CloseDatabase(fail))
    \/ \E task \in TaskArgs, outcome \in ConvertOutcomes, r \in RandomValues :
          Recorded(AddTaskWeb(task, outcome, r))
    \/ \E task \in TaskArgs : Recorded(AddTaskNative(task))
    \/ Recorded(GetAllTasks)
    \/ \E id \in IdArgs : Recorded(DeleteTask(id))
    \/ \E id \in IdArgs, updates \in Updates : Recorded(UpdateTask(id, updates))
    \/ \E id \in IdArgs : Recorded(ToggleTaskCompletion(id))
    \/ Recorded(ClearAllTasks)

SpecHistory == Init /\ [][NextHistory]_vars

\* calls may also be issued while an addTask is suspended at its await
NextOverlap ==
    \/ NextHistory
    \/ \E c \in Callers, task \in TaskArgs : Recorded(AddTaskWebBegin(c, task))
    \/ \E c \in Callers, outcome \in ConvertOutcomes, r \in RandomValues :
          Recorded(AddTaskWebFinish(c, outcome, r))
    \/ \E task \in TaskArgs, r \in RandomValues : Recorded(AddTaskWebSync(task, r))

SpecOverlap == Init /\ [][NextOverlap]_vars

\* a step that records only whether it overwrote
Traced(A) ==
    /\ A
    /\ overwrote' = Overwrites
    /\ UNCHANGED <<log, lifecycle, seqOnly>>

InitBrowser == Init /\ isWeb

\* how the conversion a suspended addTask awaits can end: with the inline
\* encoding, or with the FileReader's error
OverlapOutcomes == {"ok", "readerError"}

\* the mutating calls of the browser backend, issued in any order within one
\* tick of the clock while addTask calls are suspended at their await
NextInterleaved ==
    \/ \E task \in TaskArgs, r \in RandomValues : Traced(AddTaskWeb(task, "ok", r))
    \/ \E c \in Callers, task \in TaskArgs : Traced(AddTaskWebBegin(c, task))
    \/ \E c \in Callers, outcome \in OverlapOutcomes, r \in RandomValues :
          Traced(AddTaskWebFinish(c, outcome, r))
    \/ \E task \in TaskArgs, r \in RandomValues : Traced(AddTaskWebSync(task, r))
    \/ \E id \in IdArgs : Traced(DeleteTask(id))
    \/ \E id \in IdArgs, updates \in Updates : Traced(UpdateTask(id, updates))
    \/ \E id \in IdArgs : Traced(ToggleTaskCompletion(id))

SpecInterleaved == InitBrowser /\ [][NextInterleaved]_vars

\* the service called one call at a time, updateTask also with the partial
\* updates that carry text and image fields
NextPartials ==
    \/ Next
    \/ \E id \in IdArgs, updates \in PartialUpdates : Plain(UpdateTask(id, updates))

SpecPartials == Init /\ [][NextPartials]_vars

\* ---------------------------------------------------- a write that fails
\* localStorage.setItem(storageKey, value) throws, e.g. because the quota of
\* the origin is exceeded: the item keeps the value it had
afterThrowingSetItem(item) == item

\* saveTasksToStorage when setItem throws: the catch at lines 96-99 logs and
\* rethrows, and so does the catch of the calling method
SaveErrorAbsorbed(op) ==
    /\ localStorage' = afterThrowingSetItem(localStorage)
    /\ ret' = Ret(op, "ok", 0, <<>>)
saveThrows(op) ==
    /\ localStorage' = afterThrowingSetItem(localStorage)
    /\ ret' = Ret(op, "QuotaExceeded", 0, <<>>)

\* addTask on the browser backend, reaching line 148 with setItem throwing
AddTaskWebSaveThrows(task, outcome) ==
    /\ isWeb
    /\ NoPending
    /\ ~convertImageToBase64(task.image_webview_path, outcome).threw
    /\ returnsArray(localStorage)
    /\ saveThrows("addTask")
    /\ UNCHANGED <<isWeb, db, conn, tableExists, table, seq, now, pend>>

\* deleteTask on the browser backend, reaching line 214 with setItem throwing
DeleteTaskSaveThrows(id) ==
    /\ isWeb
    /\ returnsArray(localStorage)
    /\ saveThrows("deleteTask")
    /\ UNCHANGED <<isWeb, db, conn, tableExists, table, seq, now, pend>>

\* updateTask on the browser backend, reaching line 238 with setItem throwing
UpdateTaskSaveThrows(id, updates) ==
    /\ isWeb
    /\ returnsArray(localStorage)
    /\ findIndex(getStoredTasks, id) # 0
    /\ saveThrows("updateTask")
    /\ UNCHANGED <<isWeb, db, conn, tableExists, table, seq, now, pend>>

\* toggleTaskCompletion on the browser backend, reaching line 285 with
\* setItem throwing
ToggleTaskCompletionSaveThrows(id) ==
    /\ isWeb
    /\ returnsArray(localStorage)
    /\ findIndex(getStoredTasks, id) # 0
    /\ saveThrows("toggleTaskCompletion")
    /\ UNCHANGED <<isWeb, db, conn, tableExists, table, seq, now, pend>>

\* the browser backend called one call at a time within one tick of the
\* clock, every write either stored or refused
NextRefused ==
    \/ \E task \in TaskArgs, r \in RandomValues : Plain(AddTaskWeb(task, "ok", r))
    \/ \E id \in IdArgs : Plain(DeleteTask(id))
    \/ \E id \in IdArgs, updates \in Updates : Plain(UpdateTask(id, updates))
    \/ \E id \in IdArgs : Plain(ToggleTaskCompletion(id))
    \/ Plain(GetAllTasks)
    \/ \E task \in TaskArgs : Plain(AddTaskWebSaveThrows(task, "ok"))
    \/ \E id \in IdArgs : Plain(DeleteTaskSaveThrows(id))
    \/ \E id \in IdArgs, updates \in Updates : Plain(UpdateTaskSaveThrows(id, updates))
    \/ \E id \in IdArgs : Plain(ToggleTaskCompletionSaveThrows(id))

SpecRefused == InitBrowser /\ [][NextRefused]_vars

\* ================================================================ claims
\* the backend can serve task operations: the browser store always, the
\* native store once a connection is open on the created table
Serving == isWeb \/ Usable

\* the first record of `tasks` with identifier id
Record(tasks, id) == tasks[findIndex(tasks, id)]

\* C1: no two addTask calls on one store return the same identifier,
\* whatever deleteTask and clearAllTasks calls come in between.
C1_IdentifiersNeverReused ==
    \A i, j \in DOMAIN log : i # j => log[i][1] # log[j][1]

\* C2: on a store that started empty and has seen only awaited addTask
\* calls and no deletion, getAllTasks returns one record per addTask that
\* returned, newest first: the reverse of the order of insertion, with
\* created_at descending.
C2_NewestFirst ==
    (ret.op = "getAllTasks" /\ ret.status = "ok" /\ seqOnly) =>
        /\ Len(ret.tasks) = Len(log)
        /\ \A i \in DOMAIN ret.tasks :
              <<ret.tasks[i].id, ret.tasks[i].text>> = log[Len(log) + 1 - i]
        /\ IsDescending(ret.tasks)

\* C3: on a serving store deleteTask(id) completes without error; after it
\* no result of getAllTasks holds a record with that id; and when no record
\* had that id (a second deleteTask(id), or an id never stored) the stored
\* collection is what it was.
C3_DeleteIsIdempotent ==
    [][\A id \in IdArgs :
          (DeleteTask(id) /\ Serving) =>
              /\ ret'.status = "ok"
              /\ ~HasId(Stored', id)
              /\ \A tasks \in getAllResults' : ~HasId(tasks, id)
              /\ ~HasId(Stored, id) => Stored' = Stored]_vars

\* deleteTask has just removed a row: the native table holds fewer rows
\* than identifiers were assigned, and only deleteTask removes rows
C3_Witness ==
    /\ ~isWeb
    /\ ret.op = "deleteTask"
    /\ ret.status = "ok"
    /\ Len(table) < seq
    /\ table # <<>>

\* what one toggleTaskCompletion(id) makes of a stored collection
Toggled(tasks, id) ==
    IF isWeb THEN toggleAt(tasks, findIndex(tasks, id)) ELSE toggleRows(tasks, id)

\* C4: toggleTaskCompletion(id) on a stored id flips that record's completed
\* value, and a second toggleTaskCompletion(id) right after it gives the
\* stored collection back as it was.
C4_ToggleIsInvolution ==
    [][\A id \in IdArgs :
          (ToggleTaskCompletion(id) /\ Serving /\ HasId(Stored, id)) =>
              /\ ret'.status = "ok"
              /\ Record(Stored', id).completed # Record(Stored, id).completed
              /\ Toggled(Stored', id) = Stored]_vars

\* the completed flag of a stored record, as a boolean
IsCompleted(t) == IF isWeb THEN t.completed ELSE t.completed = 1

\* toggleTaskCompletion has just flipped a stored task to completed: the
\* call found its id and a completed record follows a record that is not
C4_Witness ==
    /\ ret.op = "toggleTaskCompletion"
    /\ ret.status = "ok"
    /\ Len(Stored) = 2
    /\ ~IsCompleted(Stored[1])
    /\ IsCompleted(Stored[2])

\* C5: on a serving store updateTask(id, partial) with a non-empty partial
\* and an id that is not stored fails with NotFound and leaves the stored
\* collection as it was.
C5_UpdateMissingIsNotFound ==
    [][\A id \in IdArgs, updates \in Updates \ {NoFields} :
          (UpdateTask(id, updates) /\ Serving /\ ~HasId(Stored, id)) =>
              /\ ret'.status = "NotFound"
              /\ Stored' = Stored]_vars

\* C6: on a serving store toggleTaskCompletion(id) with an id that is not
\* stored fails with NotFound and leaves the stored collection as it was.
C6_ToggleMissingIsNotFound ==
    [][\A id \in IdArgs :
          (ToggleTaskCompletion(id) /\ Serving /\ ~HasId(Stored, id)) =>
              /\ ret'.status = "NotFound"
              /\ Stored' = Stored]_vars

\* a step of addTask, getAllTasks, deleteTask, updateTask or
\* toggleTaskCompletion
TaskCall ==
    \/ \E task \in TaskArgs, outcome \in ConvertOutcomes, r \in RandomValues :
          AddTaskWeb(task, outcome, r)
    \/ \E task \in TaskArgs : AddTaskNative(task)
    \/ GetAllTasks
    \/ \E id \in IdArgs : DeleteTask(id)
    \/ \E id \in IdArgs, updates \in Updates : UpdateTask(id, updates)
    \/ \E id \in IdArgs : ToggleTaskCompletion(id)

\* C7: once closeDatabase has completed, and until initializeDatabase
\* succeeds again, every task operation fails with NotInitialized.
C7_ClosedMeansNotInitialized ==
    [][(lifecycle = "closed" /\ TaskCall) => ret'.status = "NotInitialized"]_vars

\* C8: while initializeDatabase has not succeeded (never called, or called
\* and failed), every task operation fails with NotInitialized.
C8_NewMeansNotInitialized ==
    [][(lifecycle = "new" /\ TaskCall) => ret'.status = "NotInitialized"]_vars

\* C9: browser addTask with an image reference whose conversion fails at
\* any step (fetch, blob, FileReader) still returns an identifier and commits
\* the task.
C9_ConversionFailureIsAbsorbed ==
    [][\A task \in TaskArgs, outcome \in ConvertOutcomes \ {"ok"}, r \in RandomValues :
          (AddTaskWeb(task, outcome, r) /\ task.image_webview_path # "") =>
              /\ ret'.status = "ok"
              /\ Len(getStoredTasks') = Len(getStoredTasks) + 1
              /\ getStoredTasks'[1].id = ret'.id]_vars

\* C10: after a browser addTask whose image conversion failed and which
\* returned, getAllTasks shows the new task with an empty image reference.
C10_FailedImageReadsEmpty ==
    [][\A task \in TaskArgs, outcome \in ConvertOutcomes \ {"ok"}, r \in RandomValues :
          (/\ AddTaskWeb(task, outcome, r)
           /\ task.image_webview_path # ""
           /\ ret'.status = "ok") =>
              \A tasks \in getAllResults' : tasks[1].image_webview_path = ""]_vars

\* C11: updateTask(id, {}) on a stored id leaves that record and the whole
\* stored collection (the localStorage item, the table) exactly as they were,
\* on both backends. (Only a step that completes an updateTask call can be
\* an UpdateTask step.)
C11_EmptyUpdateChangesNothing ==
    [][ret'.op = "updateTask" =>
          \A id \in IdArgs :
              (HasId(Stored, id) /\ UpdateTask(id, NoFields)) =>
                  /\ Stored' = Stored
                  /\ Record(Stored', id) = Record(Stored, id)
                  /\ localStorage' = localStorage
                  /\ table' = table]_vars

\* a browser updateTask has just succeeded, so it found its id, and no stored
\* record is completed, so the partial update was the empty one
C11_Witness ==
    /\ isWeb
    /\ ret.op = "updateTask"
    /\ ret.status = "ok"
    /\ Stored # <<>>
    /\ \A i \in DOMAIN Stored : ~Stored[i].completed

\* C12: on a serving store updateTask(id, {}) does not fail and writes
\* nothing to the storage medium (no localStorage write, no database
\* statement), whether or not the id is stored.
C12_EmptyUpdateWritesNothing ==
    [][\A id \in IdArgs :
          (UpdateTask(id, NoFields) /\ Serving) =>
              /\ ret'.status = "ok"
              /\ ~ret'.wrote]_vars

C14_MalformedItemIsEmpty ==
    [][(isWeb /\ localStorage.kind # "array") =>
          /\ GetAllTasks => (ret'.status = "ok" /\ ret'.tasks = <<>>)
          /\ \A task \in TaskArgs, r \in RandomValues :
                AddTaskWeb(task, "ok", r) =>
                    /\ ret'.status = "ok"
                    /\ localStorage'.kind = "array"
                    /\ Len(getStoredTasks') = 1]_vars

\* C15: after initializeDatabase has succeeded (and closeDatabase has not
\* completed since), a further initializeDatabase that meets no failure of
\* the medium succeeds and leaves the stored collection as it was.
C15_InitializeIsIdempotent ==
    [][(lifecycle = "ready" /\ InitializeDatabase("ok")) =>
          /\ ret'.status = "ok"
          /\ Stored' = Stored]_vars

\* the storage medium cannot be reached or opened during this call
MediumUnavailable(outcome) ==
    outcome \in {"noStorageAPI", "storageBlocked", "createFail", "openFail"}

\* C16: initializeDatabase fails, with the error given to the caller, whenever
\* the medium cannot be reached or opened: no usable localStorage in the
\* browser, a connection that cannot be created or opened on the native side.
C16_UnavailableMediumFailsInit ==
    [][\A outcome \in InitOutcomes \cup WebInitOutcomes :
          (InitializeDatabase(outcome) /\ MediumUnavailable(outcome)) =>
              ret'.status \in {"StorageUnavailable", "DriverError"}]_vars

\* C17: after clearAllTasks the store of the selected backend is empty:
\* every result getAllTasks can give is the empty collection.
C17_ClearEmptiesTheStore ==
    [][ClearAllTasks =>
          /\ Stored' = <<>>
          /\ \A tasks \in getAllResults' : tasks = <<>>]_vars

\* the plugin holds a connection to dbName that this service object never
\* made: one left by the session before the page was loaded again
StaleConnection == ~isWeb /\ ret.op = "constructor" /\ ~db /\ conn # "none"

\* C18: native initializeDatabase reconciles a stale connection before it
\* creates its own: with a connection left by a prior session and nothing
\* else failing, the stale one is closed first and the call succeeds with
\* the new connection open.
C18_StaleConnectionIsReconciled ==
    [][(StaleConnection /\ InitializeDatabase("ok")) =>
          /\ ret'.status = "ok"
          /\ Usable']_vars

C20_ImageIsInlineElseTransient ==
    [][(isWeb /\ GetAllTasks /\ ret'.status = "ok") =>
          /\ Len(ret'.tasks) = Len(getStoredTasks)
          /\ \A i \in DOMAIN getStoredTasks :
                LET stored == getStoredTasks[i]
                    given == ret'.tasks[i]
                IN /\ given.image_webview_path =
                         IF stored.image_base64 # "" THEN stored.image_base64
                         ELSE stored.image_webview_path
                   /\ [given EXCEPT !.image_webview_path = stored.image_webview_path] = stored
          /\ localStorage' = localStorage]_vars

\* getAllTasks has just returned a record with the inline encoding in place
\* of the transient path that is stored, and one that fell back to the
\* stored transient path
C20_Witness ==
    /\ isWeb
    /\ ret.op = "getAllTasks"
    /\ ret.status = "ok"
    /\ \E i \in DOMAIN ret.tasks :
          /\ getStoredTasks[i].image_webview_path = "blob:cam"
          /\ ret.tasks[i].image_webview_path = "data:enc"
    /\ \E i \in DOMAIN ret.tasks :
          /\ getStoredTasks[i].image_base64 = ""
          /\ ret.tasks[i].image_webview_path = "blob:cam"

\* C21: a task is stored with completed = false whatever completed value
\* the caller gave addTask, on both backends, and every result getAllTasks
\* can give right after the addTask shows that task with completed = FALSE,
\* a boolean.
C21_CreatedNotCompleted ==
    (ret.op = "addTask" /\ ret.status = "ok") =>
        /\ ~IsCompleted(Added)
        /\ \A tasks \in getAllResults : Record(tasks, ret.id).completed = FALSE

\* addTask has just stored a task that the caller passed as completed
C21_Witness ==
    /\ ret.op = "addTask"
    /\ ret.status = "ok"
    /\ Added.text = "b"
    /\ \E task \in TaskArgs : task.text = "b" /\ task.completed
    /\ \E tasks \in getAllResults : Len(tasks) = 2

\* the records of a collection
Records(tasks) == {tasks[i] : i \in DOMAIN tasks}

\* C22: on the browser backend, when an addTask that read the collection and
\* was suspended writes after other calls have written, the stored document
\* is exactly what that last writer wrote, its new task in front of the
\* collection it had read: whatever the other calls committed in between is
\* absent, although they returned.
C22_LastWriterWins ==
    [][ret'.op = "addTask" =>
          \A c \in Callers, outcome \in ConvertOutcomes, r \in RandomValues :
              (pend[c].active /\ AddTaskWebFinish(c, outcome, r) /\ ret'.status = "ok") =>
                  /\ Len(getStoredTasks') = Len(pend[c].tasks) + 1
                  /\ getStoredTasks'[1].id = ret'.id
                  /\ Tail(getStoredTasks') = pend[c].tasks
                  /\ Records(getStoredTasks') \subseteq
                         Records(pend[c].tasks) \cup {getStoredTasks'[1]}]_vars

\* a suspended addTask has just written over a collection that another call
\* had changed, and no call is left suspended
C22_Witness ==
    /\ overwrote
    /\ NoPending
    /\ ret.op = "addTask"
    /\ ret.status = "ok"

\* C24: on the browser backend deleteTask, updateTask and
\* toggleTaskCompletion write back the collection as it is stored at that
\* very step, changed only at the records with the given id, also while an
\* addTask is suspended: they never put back an older collection. The only
\* calls suspended between their read and their write are addTask calls
\* with an image reference.
C24_OnlyAddTaskSuspends ==
    [][/\ \A c \in Callers :
             pend'[c].active => pend'[c].task.image_webview_path # ""
       /\ ret'.op \in {"deleteTask", "updateTask", "toggleTaskCompletion"} =>
             \A id \in IdArgs :
                /\ DeleteTask(id) =>
                      getStoredTasks' = SelectSeq(getStoredTasks, LAMBDA t : t.id # id)
                /\ (ToggleTaskCompletion(id) \/ \E updates \in Updates : UpdateTask(id, updates)) =>
                      /\ pend' = pend
                      /\ Len(getStoredTasks') = Len(getStoredTasks)
                      /\ \A i \in DOMAIN getStoredTasks :
                            /\ getStoredTasks'[i].id = getStoredTasks[i].id
                            /\ getStoredTasks[i].id # id =>
                                  getStoredTasks'[i] = getStoredTasks[i]]_vars

\* deleteTask has just removed a task while an addTask is suspended: the
\* stored collection is no longer the one the suspended call read
C24_Witness ==
    /\ ret.op = "deleteTask"
    /\ ret.status = "ok"
    /\ \E c \in Callers :
          /\ pend[c].active
          /\ Len(getStoredTasks) < Len(pend[c].tasks)

\* field f of the stored record t has the value v a caller passed (the
\* table keeps completed as 0 or 1)
HasValue(t, f, v) == IF f = "completed" THEN IsCompleted(t) = v ELSE t[f] = v

\* the identifiers of a returned list, in its order
IdsInOrder(tasks) == [i \in DOMAIN tasks |-> tasks[i].id]

\* C23: updateTask(id, partial) on a stored id, on a serving store, succeeds
\* and sets exactly the fields present in partial on the record with that
\* id, image_base64 included: every other field of that record (id and
\* created_at among them), every other record, the number of records and
\* their order in getAllTasks stay as they were, on both backends.
C23_UpdateSetsExactlyPartial ==
    [][ret'.op = "updateTask" =>
          \A id \in IdArgs, updates \in Updates \cup PartialUpdates :
              (HasId(Stored, id) /\ Serving /\ UpdateTask(id, updates)) =>
                  /\ ret'.status = "ok"
                  /\ Len(Stored') = Len(Stored)
                  /\ \A i \in DOMAIN Stored :
                        IF i = findIndex(Stored, id)
                        THEN \A f \in DOMAIN Stored[i] \cup DOMAIN updates :
                                IF f \in DOMAIN updates
                                THEN HasValue(Stored'[i], f, updates[f])
                                ELSE Stored'[i][f] = Stored[i][f]
                        ELSE Stored'[i] = Stored[i]
                  /\ {IdsInOrder(tasks) : tasks \in getAllResults'} =
                         {IdsInOrder(tasks) : tasks \in getAllResults}]_vars

\* a browser call whose write of the collection is refused
SaveThrowsCall ==
    \/ \E task \in TaskArgs : AddTaskWebSaveThrows(task, "ok")
    \/ \E id \in IdArgs : DeleteTaskSaveThrows(id)
    \/ \E id \in IdArgs, updates \in Updates : UpdateTaskSaveThrows(id, updates)
    \/ \E id \in IdArgs : ToggleTaskCompletionSaveThrows(id)

\* C25: on the browser backend, when the write of the collection fails
\* during addTask, deleteTask, updateTask or toggleTaskCompletion, the call
\* ends with the error, the stored document is exactly what it was before the
\* call, and a later getAllTasks returns what it would have returned before.
C25_FailedWriteChangesNothing ==
    [][SaveThrowsCall =>
          /\ ret'.status = "QuotaExceeded"
          /\ ~ret'.wrote
          /\ localStorage' = localStorage
          /\ getAllResults' = getAllResults]_vars

\* the write of a deleteTask has just been refused on a store that holds two
\* tasks, one of them completed
C25_Witness ==
    /\ isWeb
    /\ ret.op = "deleteTask"
    /\ ret.status = "QuotaExceeded"
    /\ Len(getStoredTasks) = 2
    /\ \E i \in DOMAIN getStoredTasks : getStoredTasks[i].completed

====
